---- MODULE Spec2Model ----
(***************************************************************************)
(* Reverse geocoding of activity start points into country codes:          *)
(* getCountryFromPoint (utils/geo) and the useVisitedCountries hook that   *)
(* wraps it with a per-pass coordinate cache.                              *)
(*                                                                         *)
(* Coordinates are integers in units of 0.01 degree, so 0.1 degree is 10   *)
(* units and THRESHOLD_SQ = 0.1 * 0.1 is 100 square units.  The code's     *)
(* floating-point arithmetic is modelled by exact rational arithmetic.     *)
(***************************************************************************)
EXTENDS Integers, Sequences, FiniteSets, Bags, TLC

VARIABLES
    geoJsonData,        \* useState<GeoJSONCollection | null>
    fetchState,         \* the boundary fetches issued, each "pending",
                        \* "resolved" or "failed" (caught and logged)
    activities,         \* the hook's argument: useStravaAuth's activities state
    visitedCountries,   \* the memoized result the hook exposes
    activityCountries,  \* the memoized result the hook exposes
    pc,                 \* "idle", or "memo" while the useMemo callback runs
    idx,                \* the position of the for..of loop in activities
    coordCache,         \* the pass's coordCache: key -> country code or NULL
    visited,            \* the pass's visited set
    activityMap,        \* the pass's activityMap
    calls,              \* getCountryFromPoint invocations made by the pass
    call,               \* the latest getCountryFromPoint invocation
    auth,               \* useStravaAuth's other cells (accessToken, status,
                        \* errorMessage, the refs processingCode and
                        \* loadedYears), the code parameter of the URL, and
                        \* the calls it is awaiting (loads, exchanges)
    app                 \* App's dateRange, filterType and selectedCountry

vars == <<geoJsonData, fetchState, activities, visitedCountries,
          activityCountries, pc, idx, coordCache, visited, activityMap,
          calls, call, auth, app>>

\* JavaScript's null, as a return value of getCountryFromPoint
NULL == "<null>"
\* A TypeError thrown out of the call instead of a return value
THROWN == "<TypeError>"
\* call.result before the call has returned
UNSET == "<unset>"

(***************************************************************************)
(* Exact rational numbers n/d (d > 0, lowest terms) and Infinity.          *)
(***************************************************************************)
Abs(a) == IF a < 0 THEN -a ELSE a

RECURSIVE GCD(_, _)
GCD(a, b) == IF b = 0 THEN a ELSE GCD(b, a % b)

Num(n, d) ==
    LET g == GCD(Abs(n), d)
    IN  [inf |-> FALSE, n |-> n \div g, d |-> d \div g]

Int2Num(a) == [inf |-> FALSE, n |-> a, d |-> 1]

Infinity == [inf |-> TRUE, n |-> 0, d |-> 1]

\* a < b on numbers; x < Infinity for every finite x, Infinity < y never
Lt(a, b) == ~a.inf /\ (b.inf \/ a.n * b.d < b.n * a.d)

NumAdd(a, b) == Num(a.n * b.d + b.n * a.d, a.d * b.d)

NumSub(a, b) == Num(a.n * b.d - b.n * a.d, a.d * b.d)

NumMul(a, b) == Num(a.n * b.n, a.d * b.d)

NumMin(a, b) == IF Lt(b, a) THEN b ELSE a

NumMax(a, b) == IF Lt(a, b) THEN b ELSE a

(***************************************************************************)
(* utils/geo                                                               *)
(***************************************************************************)
\* a variant of the threshold: one degree instead of a tenth
THRESHOLD_SQ_OneDegree == 100 * 100

\* THRESHOLD_SQ = 0.1 * 0.1 (degrees squared), here in 0.01-degree units
THRESHOLD_SQ == 10 * 10

distToSegmentSquared(p, v, w) ==
    LET l2 == (v[1] - w[1]) * (v[1] - w[1]) + (v[2] - w[2]) * (v[2] - w[2])
    IN  IF l2 = 0
        THEN Int2Num((p[1] - v[1]) * (p[1] - v[1]) + (p[2] - v[2]) * (p[2] - v[2]))
        ELSE LET t0 == Num((p[1] - v[1]) * (w[1] - v[1])
                           + (p[2] - v[2]) * (w[2] - v[2]), l2)
                 t  == NumMax(Int2Num(0), NumMin(Int2Num(1), t0))
                 dx == NumSub(Int2Num(p[1]),
                         NumAdd(Int2Num(v[1]), NumMul(t, Int2Num(w[1] - v[1]))))
                 dy == NumSub(Int2Num(p[2]),
                         NumAdd(Int2Num(v[2]), NumMul(t, Int2Num(w[2] - v[2]))))
             IN  NumAdd(NumMul(dx, dx), NumMul(dy, dy))

\* for (let i = 0; i < ring.length - 1; i++): the segments ring[i], ring[i+1]
RECURSIVE MinDistLoop(_, _, _, _)
MinDistLoop(point, ring, i, minDist2) ==
    IF i >= Len(ring)
    THEN minDist2
    ELSE LET d2 == distToSegmentSquared(point, ring[i], ring[i + 1])
         IN  MinDistLoop(point, ring, i + 1,
                         IF Lt(d2, minDist2) THEN d2 ELSE minDist2)

getMinDistToRingSquared(point, ring) == MinDistLoop(point, ring, 1, Infinity)

\* yi > y !== yj > y && x < ((xj - xi) * (y - yi)) / (yj - yi) + xi
Intersect(point, vi, vj) ==
    LET x  == point[1]
        y  == point[2]
        xi == vi[1]
        yi == vi[2]
        xj == vj[1]
        yj == vj[2]
    IN  /\ (yi > y) # (yj > y)
        /\ Lt(Int2Num(x),
              NumAdd(IF yj - yi > 0
                     THEN Num((xj - xi) * (y - yi), yj - yi)
                     ELSE Num(-((xj - xi) * (y - yi)), yi - yj),
                     Int2Num(xi)))

\* for (let i = 0, j = vs.length - 1; i < vs.length; j = i++)
RECURSIVE PolyLoop(_, _, _, _, _)
PolyLoop(point, vs, i, j, inside) ==
    IF i > Len(vs)
    THEN inside
    ELSE PolyLoop(point, vs, i + 1, i,
                  IF Intersect(point, vs[i], vs[j]) THEN ~inside ELSE inside)

\* a variant that walks the consecutive pairs only, without the pair of the
\* last point and the first
isPointInPoly_NoWrap(point, vs) == PolyLoop(point, vs, 2, 1, FALSE)

\* a variant that reads the point as [lat, lng]
isPointInPoly_LatLng(point, vs) ==
    PolyLoop(<<point[2], point[1]>>, vs, 1, Len(vs), FALSE)

isPointInPoly(point, vs) == PolyLoop(point, vs, 1, Len(vs), FALSE)

\* A feature: [iso |-> properties["ISO3166-1-Alpha-2"], geometry |-> g] with
\* g = [type |-> "Polygon", coordinates |-> <<outerRing, hole, ...>>],
\*     [type |-> "MultiPolygon", coordinates |-> <<polygon, ...>>] or
\*     NoGeometry for a feature whose geometry is null.
NoGeometry == [type |-> "null", coordinates |-> <<>>]

\* Pass 1 on the polygons of a MultiPolygon, from polygon k on:
\* "hit", "miss", or "throw" when polygon[0] is undefined
RECURSIVE MultiHit(_, _, _)
MultiHit(point, polygons, k) ==
    IF k > Len(polygons) THEN "miss"
    ELSE IF Len(polygons[k]) = 0 THEN "throw"
    ELSE IF isPointInPoly(point, polygons[k][1]) THEN "hit"
    ELSE MultiHit(point, polygons, k + 1)

\* a variant of Pass 1 on a feature that subtracts the holes of a Polygon:
\* inside the first ring and inside none of the others
FeatureHit_HolesSubtracted(point, feature) ==
    LET geometry == feature.geometry
    IN  IF geometry.type = "null" THEN "miss"
        ELSE IF geometry.type = "Polygon"
        THEN IF Len(geometry.coordinates) = 0 THEN "throw"
             ELSE IF /\ isPointInPoly(point, geometry.coordinates[1])
                     /\ \A h \in 2..Len(geometry.coordinates) :
                           ~isPointInPoly(point, geometry.coordinates[h])
             THEN "hit"
             ELSE "miss"
        ELSE IF geometry.type = "MultiPolygon"
        THEN MultiHit(point, geometry.coordinates, 1)
        ELSE "miss"

\* Pass 1 on one feature: "hit", "miss" or "throw"
FeatureHit(point, feature) ==
    LET geometry == feature.geometry
    IN  IF geometry.type = "null" THEN "miss"
        ELSE IF geometry.type = "Polygon"
        THEN IF Len(geometry.coordinates) = 0 THEN "throw"
             ELSE IF isPointInPoly(point, geometry.coordinates[1]) THEN "hit"
             ELSE "miss"
        ELSE IF geometry.type = "MultiPolygon"
        THEN MultiHit(point, geometry.coordinates, 1)
        ELSE "miss"

\* Pass 2 on the polygons of a MultiPolygon: the smallest ring distance;
\* threw when polygon[0] is undefined (getMinDistToRingSquared reads its length)
RECURSIVE MultiDist(_, _, _, _)
MultiDist(point, polygons, k, distSq) ==
    IF k > Len(polygons) THEN [threw |-> FALSE, d |-> distSq]
    ELSE IF Len(polygons[k]) = 0 THEN [threw |-> TRUE, d |-> distSq]
    ELSE LET d == getMinDistToRingSquared(point, polygons[k][1])
         IN  MultiDist(point, polygons, k + 1,
                       IF Lt(d, distSq) THEN d ELSE distSq)

FeatureDist(point, feature) ==
    LET geometry == feature.geometry
    IN  IF geometry.type = "Polygon"
        THEN IF Len(geometry.coordinates) = 0
             THEN [threw |-> TRUE, d |-> Infinity]
             ELSE [threw |-> FALSE,
                   d |-> getMinDistToRingSquared(point, geometry.coordinates[1])]
        ELSE IF geometry.type = "MultiPolygon"
        THEN MultiDist(point, geometry.coordinates, 1, Infinity)
        ELSE [threw |-> FALSE, d |-> Infinity]

\* a variant that takes the nearest feature whatever its distance
RECURSIVE Pass2_NoThreshold(_, _, _, _, _)
Pass2_NoThreshold(point, features, k, bestCandidate, minDistanceSq) ==
    IF k > Len(features) THEN bestCandidate
    ELSE IF features[k].geometry.type = "null"
    THEN Pass2_NoThreshold(point, features, k + 1, bestCandidate, minDistanceSq)
    ELSE LET r == FeatureDist(point, features[k])
         IN  IF r.threw THEN THROWN
             ELSE IF Lt(r.d, minDistanceSq)
             THEN Pass2_NoThreshold(point, features, k + 1, features[k].iso, r.d)
             ELSE Pass2_NoThreshold(point, features, k + 1, bestCandidate,
                                    minDistanceSq)

\* Pass 2: Fuzzy match (near coast/border)
RECURSIVE Pass2(_, _, _, _, _)
Pass2(point, features, k, bestCandidate, minDistanceSq) ==
    IF k > Len(features) THEN bestCandidate
    ELSE IF features[k].geometry.type = "null"
    THEN Pass2(point, features, k + 1, bestCandidate, minDistanceSq)
    ELSE LET r == FeatureDist(point, features[k])
             distSq == r.d
         IN  IF r.threw THEN THROWN
             ELSE IF Lt(distSq, Int2Num(THRESHOLD_SQ)) /\ Lt(distSq, minDistanceSq)
             THEN Pass2(point, features, k + 1, features[k].iso, distSq)
             ELSE Pass2(point, features, k + 1, bestCandidate, minDistanceSq)

\* a variant with a single pass: a feature that does not contain the point
\* but is nearer than the threshold is returned at once
RECURSIVE Pass1_FallbackPerFeature(_, _, _)
Pass1_FallbackPerFeature(point, features, k) ==
    IF k > Len(features) THEN NULL
    ELSE LET h == FeatureHit(point, features[k])
             r == FeatureDist(point, features[k])
         IN  IF h = "throw" THEN THROWN
             ELSE IF h = "hit" THEN features[k].iso
             ELSE IF Lt(r.d, Int2Num(THRESHOLD_SQ)) THEN features[k].iso
             ELSE Pass1_FallbackPerFeature(point, features, k + 1)

\* a variant of Pass 1 that keeps scanning and returns the last match
RECURSIVE LastHit(_, _, _, _)
LastHit(point, features, k, found) ==
    IF k > Len(features)
    THEN IF found = NULL THEN Pass2(point, features, 1, NULL, Infinity) ELSE found
    ELSE LET h == FeatureHit(point, features[k])
         IN  IF h = "throw" THEN THROWN
             ELSE LastHit(point, features, k + 1,
                          IF h = "hit" THEN features[k].iso ELSE found)

Pass1_LastMatch(point, features, k) == LastHit(point, features, k, NULL)

\* Pass 1: Exact match, then Pass 2
RECURSIVE Pass1(_, _, _)
Pass1(point, features, k) ==
    IF k > Len(features) THEN Pass2(point, features, 1, NULL, Infinity)
    ELSE LET h == FeatureHit(point, features[k])
         IN  IF h = "throw" THEN THROWN
             ELSE IF h = "hit" THEN features[k].iso
             ELSE Pass1(point, features, k + 1)

\* a variant that tests the point in the order [lat, lng]
getCountryFromPoint_LatLng(lat, lng, features) ==
    LET point == <<lat, lng>>
    IN  Pass1(point, features, 1)

getCountryFromPoint(lat, lng, features) ==
    LET point == <<lng, lat>>  \* GeoJSON uses [lng, lat]
    IN  Pass1(point, features, 1)

(***************************************************************************)
(* Boundary data the classifier is run on.  Rings are sequences of         *)
(* <<lng, lat>> points.                                                    *)
(***************************************************************************)
Polygon(iso, rings) ==
    [iso |-> iso, geometry |-> [type |-> "Polygon", coordinates |-> rings]]

MultiPolygon(iso, polygons) ==
    [iso |-> iso, geometry |-> [type |-> "MultiPolygon", coordinates |-> polygons]]

\* the closed ring (first point repeated last) of the rectangle x0..x1, y0..y1
Rect(x0, y0, x1, y1) ==
    <<<<x0, y0>>, <<x1, y0>>, <<x1, y1>>, <<x0, y1>>, <<x0, y0>>>>

\* the same rectangle as a ring whose last point is not its first
OpenRect(x0, y0, x1, y1) ==
    <<<<x0, y0>>, <<x1, y0>>, <<x1, y1>>, <<x0, y1>>>>

Diamond == <<<<20, 60>>, <<40, 80>>, <<20, 100>>, <<0, 80>>, <<20, 60>>>>

LShape == <<<<60, 60>>, <<100, 60>>, <<100, 80>>, <<80, 80>>, <<80, 100>>,
            <<60, 100>>, <<60, 60>>>>

GeoCollections ==
    { <<>>,
      <<Polygon("AA", <<Rect(0, 0, 40, 40)>>),
        Polygon("BB", <<OpenRect(60, 0, 100, 40)>>)>>,
      <<Polygon("DD", <<Diamond>>), Polygon("LL", <<LShape>>),
        Polygon("AA", <<Rect(0, 0, 40, 40)>>)>>,
      <<Polygon("AA", <<Rect(0, 0, 40, 40)>>),
        Polygon("OV", <<Rect(20, 20, 60, 60)>>)>>,
      <<Polygon("OV", <<Rect(20, 20, 60, 60)>>),
        Polygon("AA", <<Rect(0, 0, 40, 40)>>)>>,
      <<MultiPolygon("MP", <<<<Rect(60, 60, 100, 100)>>,
                             <<OpenRect(20, 20, 60, 60)>>>>),
        Polygon("AA", <<Rect(0, 0, 40, 40)>>),
        Polygon("CC", <<Rect(56, 0, 96, 40)>>)>>,
      <<Polygon("E1", <<<<>>>>), Polygon("E2", <<<<<<50, 50>>>>>>),
        [iso |-> "E3", geometry |-> NoGeometry], MultiPolygon("E4", <<>>),
        Polygon("AA", <<Rect(0, 0, 40, 40), Rect(10, 10, 30, 30)>>)>>,
      <<Polygon("AA", <<Rect(0, 0, 40, 40)>>),
        Polygon("CC", <<Rect(56, 0, 96, 40)>>)>>,
      <<Polygon("AA", <<Rect(0, 0, 40, 40)>>),
        Polygon("NN", <<Rect(54, 0, 94, 40)>>)>>,
      <<Polygon("HH", <<Rect(0, 0, 40, 40), Rect(10, 10, 30, 30)>>),
        MultiPolygon("HM", <<<<Rect(60, 60, 100, 100), Rect(70, 70, 90, 90)>>,
                             <<Rect(60, 0, 100, 40), Rect(44, 10, 50, 30)>>>>)>> }

\* collections with a Polygon, or a member of a MultiPolygon, that has no
\* ring at all
MalformedCollections ==
    { <<Polygon("ZZ", <<>>), Polygon("AA", <<Rect(0, 0, 40, 40)>>)>>,
      <<Polygon("AA", <<Rect(0, 0, 40, 40)>>), Polygon("ZZ", <<>>)>>,
      <<Polygon("AA", <<Rect(0, 0, 40, 40)>>),
        MultiPolygon("ZM", <<<<Rect(60, 60, 100, 100)>>, <<>>>>)>>,
      <<Polygon("E1", <<<<>>>>), Polygon("E2", <<<<<<50, 50>>>>>>),
        MultiPolygon("E4", <<>>), Polygon("AA", <<Rect(0, 0, 40, 40)>>)>> }

\* latitudes and longitudes the classifier is probed with
GridVals == {-12, -10, -4, 0, 10, 20, 30, 40, 44, 48, 50, 56, 60, 70, 80,
             90, 100, 110, 112}

(***************************************************************************)
(* The hook's state before anything has happened.                          *)
(***************************************************************************)
NoData == [type |-> "null", features |-> <<>>]

FeatureCollection(features) == [type |-> "FeatureCollection", features |-> features]

EmptyMap == [k \in {} |-> NULL]

NoCall == [lat |-> 0, lng |-> 0, features |-> <<>>, result |-> UNSET]

\* the fetches in flight once the component is mounted: the effect runs
\* once, and once more when <StrictMode> re-runs effects after mounting, as
\* it does in a development build
MountFetches == {<<"pending">>, <<"pending", "pending">>}

\* the access token Strava issues
Token == "token"

\* useStravaAuth as its useState and useRef calls leave it, for a stored
\* token (or NULL) and a URL with or without a code parameter: nothing is
\* awaited yet (loads is the bag of the calls of loadActivitiesForYear that
\* await a response, exchanges the calls of exchangeCodeForToken), and the
\* effects have not run (mounted)
AuthCells(accessToken, code) ==
    [accessToken |-> accessToken, code |-> code, status |-> "idle",
     errorMessage |-> NULL, processingCode |-> FALSE, loadedYears |-> {},
     loads |-> EmptyBag, exchanges |-> <<>>, mounted |-> FALSE]

\* a visit without a stored token or a code, after mounting: the effects
\* found nothing to do
FirstVisit == [AuthCells(NULL, FALSE) EXCEPT !.mounted = TRUE]

\* App's useState calls
AppInit == [dateRange |-> "lastYear", filterType |-> "All", selectedCountry |-> NULL]

HookInit ==
    /\ geoJsonData = NoData
    /\ fetchState \in MountFetches
    /\ activities = <<>>
    /\ visitedCountries = {}
    /\ activityCountries = EmptyMap
    /\ pc = "idle"
    /\ idx = 0
    /\ coordCache = EmptyMap
    /\ visited = {}
    /\ activityMap = EmptyMap
    /\ calls = 0

HookVars == <<geoJsonData, fetchState, activities, visitedCountries,
              activityCountries, pc, idx, coordCache, visited, activityMap,
              calls>>

(***************************************************************************)
(* getCountryFromPoint on its own: one call on inputs drawn from the grid  *)
(* and the collections.                                                    *)
(***************************************************************************)
Classify ==
    /\ call.result = UNSET
    /\ call' = [call EXCEPT
                  !.result = getCountryFromPoint(call.lat, call.lng, call.features)]
    /\ UNCHANGED <<HookVars, auth, app>>

InitClassify ==
    /\ HookInit
    /\ auth = FirstVisit
    /\ app = AppInit
    /\ \E lat \in GridVals, lng \in GridVals, fs \in GeoCollections :
          call = [lat |-> lat, lng |-> lng, features |-> fs, result |-> UNSET]

SpecClassify == InitClassify /\ [][Classify]_vars

InitMalformed ==
    /\ HookInit
    /\ auth = FirstVisit
    /\ app = AppInit
    /\ \E lat \in GridVals, lng \in GridVals, fs \in MalformedCollections :
          call = [lat |-> lat, lng |-> lng, features |-> fs, result |-> UNSET]

SpecMalformed == InitMalformed /\ [][Classify]_vars

(***************************************************************************)
(* isPointInPoly and getMinDistToRingSquared on their own: one ring, one   *)
(* point [x, y], each function applied once.                               *)
(***************************************************************************)
\* rings: none, degenerate, closed, not closed, concave, self-intersecting
RingPool ==
    { <<>>,
      <<<<20, 20>>>>,
      <<<<0, 0>>, <<40, 40>>>>,
      Rect(0, 0, 40, 40),
      OpenRect(60, 0, 100, 40),
      Diamond,
      LShape,
      <<<<0, 0>>, <<100, 0>>, <<50, 100>>>>,
      <<<<0, 0>>, <<40, 40>>, <<40, 0>>, <<0, 40>>, <<0, 0>>>> }

InitRing ==
    /\ HookInit
    /\ auth = FirstVisit
    /\ app = AppInit
    /\ \E x \in GridVals, y \in GridVals, ring \in RingPool :
          call = [point |-> <<x, y>>, ring |-> ring,
                  tested |-> FALSE, inside |-> FALSE,
                  measured |-> FALSE, distSq |-> Infinity]

TestRing ==
    /\ ~call.tested
    /\ call' = [call EXCEPT !.tested = TRUE,
                            !.inside = isPointInPoly(call.point, call.ring)]
    /\ UNCHANGED <<HookVars, auth, app>>

MeasureRing ==
    /\ ~call.measured
    /\ call' = [call EXCEPT !.measured = TRUE,
                            !.distSq = getMinDistToRingSquared(call.point, call.ring)]
    /\ UNCHANGED <<HookVars, auth, app>>

NextRing == TestRing \/ MeasureRing

SpecRing == InitRing /\ [][NextRing]_vars

(***************************************************************************)
(* Plane geometry the claims are stated in, independent of the code above. *)
(***************************************************************************)
\* twice the signed area of the triangle a, b, p: > 0 when p is left of a->b
Cross(a, b, p) == (b[1] - a[1]) * (p[2] - a[2]) - (b[2] - a[2]) * (p[1] - a[1])

OnSegment(p, a, b) ==
    /\ Cross(a, b, p) = 0
    /\ (a[1] <= p[1] /\ p[1] <= b[1]) \/ (b[1] <= p[1] /\ p[1] <= a[1])
    /\ (a[2] <= p[2] /\ p[2] <= b[2]) \/ (b[2] <= p[2] /\ p[2] <= a[2])

\* the ring as a cycle: the point after the last one is the first
Succ(ring, i) == ring[(i % Len(ring)) + 1]

\* the edges of a ring taken as a closed curve; a ring of fewer than two
\* points has none
RingEdges(ring) ==
    IF Len(ring) < 2 THEN {}
    ELSE {<<ring[i], Succ(ring, i)>> : i \in 1..Len(ring)}

OnBoundary(p, ring) == \E e \in RingEdges(ring) : OnSegment(p, e[1], e[2])

\* how often the closed curve winds around p (p not on it)
WindingNumber(p, ring) ==
    LET up == {i \in 1..Len(ring) :
                 /\ ring[i][2] <= p[2] /\ p[2] < Succ(ring, i)[2]
                 /\ Cross(ring[i], Succ(ring, i), p) > 0}
        down == {i \in 1..Len(ring) :
                 /\ Succ(ring, i)[2] <= p[2] /\ p[2] < ring[i][2]
                 /\ Cross(ring[i], Succ(ring, i), p) < 0}
    IN  Cardinality(up) - Cardinality(down)

\* the ring without the repeated closing point
Vertices(ring) ==
    IF Len(ring) >= 2 /\ ring[1] = ring[Len(ring)]
    THEN SubSeq(ring, 1, Len(ring) - 1)
    ELSE ring

Opposite(d1, d2) == (d1 > 0 /\ d2 < 0) \/ (d1 < 0 /\ d2 > 0)

SegmentsMeet(a, b, c, d) ==
    \/ /\ Opposite(Cross(c, d, a), Cross(c, d, b))
       /\ Opposite(Cross(a, b, c), Cross(a, b, d))
    \/ OnSegment(a, c, d) \/ OnSegment(b, c, d)
    \/ OnSegment(c, a, b) \/ OnSegment(d, a, b)

\* a simple (non-self-intersecting) polygon: at least three distinct
\* vertices, edges that are not neighbours never meet, and neighbours meet
\* in their common vertex only
SimpleRing(ring) ==
    LET v == Vertices(ring)
        n == Len(v)
    IN  /\ n >= 3
        /\ \A i, j \in 1..n : i < j => v[i] # v[j]
        /\ \A i, j \in 1..n :
              i < j =>
                IF j = i + 1
                THEN ~OnSegment(Succ(v, j), v[i], v[j])
                     /\ ~OnSegment(v[i], v[j], Succ(v, j))
                ELSE IF i = 1 /\ j = n
                THEN ~OnSegment(v[2], v[n], v[1])
                     /\ ~OnSegment(v[n], v[1], v[2])
                ELSE ~SegmentsMeet(v[i], Succ(v, i), v[j], Succ(v, j))

StrictlyInside(p, ring) ==
    SimpleRing(ring) /\ ~OnBoundary(p, ring) /\ WindingNumber(p, ring) # 0

\* the outer rings of a feature: the first ring of each of its polygons
OuterRings(feature) ==
    LET g == feature.geometry
    IN  IF g.type = "Polygon"
        THEN {g.coordinates[k] : k \in {1} \cap DOMAIN g.coordinates}
        ELSE IF g.type = "MultiPolygon"
        THEN {g.coordinates[k][1] :
                k \in {m \in DOMAIN g.coordinates : Len(g.coordinates[m]) > 0}}
        ELSE {}

InsideFeature(p, feature) ==
    \E ring \in OuterRings(feature) : StrictlyInside(p, ring)

\* inside the feature or on the boundary of one of its outer rings
TouchesFeature(p, feature) ==
    \E ring \in OuterRings(feature) :
        StrictlyInside(p, ring) \/ OnBoundary(p, ring)

\* the squared distance from p to the segment a-b as the minimum over
\* s in [0, 1] of |p - a - s(b - a)|^2 = A - 2 B s + C s^2
SegDistSq(p, a, b) ==
    LET A == (p[1] - a[1]) * (p[1] - a[1]) + (p[2] - a[2]) * (p[2] - a[2])
        B == (p[1] - a[1]) * (b[1] - a[1]) + (p[2] - a[2]) * (b[2] - a[2])
        C == (b[1] - a[1]) * (b[1] - a[1]) + (b[2] - a[2]) * (b[2] - a[2])
    IN  IF B <= 0 THEN Int2Num(A)
        ELSE IF B >= C THEN Int2Num(A - 2 * B + C)
        ELSE Num(Cross(a, b, p) * Cross(a, b, p), C)

\* d is a lower bound of the squared distance from p to every edge of
\* every outer ring of the feature
AtLeastFromFeature(p, feature, d) ==
    \A ring \in OuterRings(feature) : \A e \in RingEdges(ring) :
        ~Lt(SegDistSq(p, e[1], e[2]), d)

\* every edge of every outer ring of the feature is farther from p than d
FartherFromFeature(p, feature, d) ==
    \A ring \in OuterRings(feature) : \A e \in RingEdges(ring) :
        Lt(d, SegDistSq(p, e[1], e[2]))

\* some edge of some outer ring of the feature is nearer to p than d
NearerThan(p, feature, d) == ~AtLeastFromFeature(p, feature, d)

\* the square of a tenth of a degree, as a number of the model
TenthOfADegreeSq == Int2Num(10 * 10)

Point == <<call.lng, call.lat>>

Returned == call.result # UNSET

(***************************************************************************)
(* Claims about getCountryFromPoint (SpecClassify, SpecMalformed).         *)
(***************************************************************************)
\* the first feature of the call's collection that the point is strictly
\* inside, 0 when there is none
FirstInside ==
    LET S == {k \in DOMAIN call.features : InsideFeature(Point, call.features[k])}
    IN  IF S = {} THEN 0 ELSE CHOOSE k \in S : \A m \in S : k <= m

\* C1: a point strictly inside the outer ring of a simple polygon of a
\* feature, and neither inside nor on the boundary of any earlier feature,
\* is classified as that feature's country code.
C1_StrictlyInsideReturnsCode ==
    Returned =>
        \A k \in DOMAIN call.features :
            ( /\ InsideFeature(Point, call.features[k])
              /\ \A j \in 1..(k - 1) : ~TouchesFeature(Point, call.features[j]) )
            => call.result = call.features[k].iso

\* C1 witness: a call returned the code of a feature that is not the first
\* of its collection for a point strictly inside its concave outer ring.
C1_Witness ==
    /\ Returned
    /\ \E k \in DOMAIN call.features :
          /\ k > 1
          /\ call.features[k].geometry.coordinates = <<LShape>>
          /\ InsideFeature(Point, call.features[k])
          /\ \A j \in 1..(k - 1) : ~TouchesFeature(Point, call.features[j])
          /\ call.result = call.features[k].iso

\* C2 (as claimed): for a point that no feature contains, the call returns
\* the code of a feature whose outer-ring edges are nearer than 0.1 degree
\* when there is such a feature, and null when every feature is 0.1 degree
\* away or more.  The edges are those of the ring as a closed curve.
C2_NearEdgeReturnsCode ==
    ( /\ Returned
      /\ \A k \in DOMAIN call.features : ~TouchesFeature(Point, call.features[k]) )
    => LET near == {k \in DOMAIN call.features :
                      NearerThan(Point, call.features[k], TenthOfADegreeSq)}
       IN  IF near = {}
           THEN call.result = NULL
           ELSE \E k \in near : call.result = call.features[k].iso

\* C3: a point outside every feature's outer rings and farther than 0.1
\* degree from all their edges is classified as null; so is every point
\* when the collection is empty.
C3_FarReturnsNull ==
    ( /\ Returned
      /\ \A k \in DOMAIN call.features :
            /\ ~TouchesFeature(Point, call.features[k])
            /\ FartherFromFeature(Point, call.features[k],
                                  TenthOfADegreeSq) )
    => call.result = NULL

\* C3 witness: a call on a collection with several features returned null
\* for a point farther than 0.1 degree from all of them.
C3_Witness ==
    /\ Returned
    /\ Len(call.features) >= 2
    /\ \A k \in DOMAIN call.features :
          /\ OuterRings(call.features[k]) # {}
          /\ ~TouchesFeature(Point, call.features[k])
          /\ FartherFromFeature(Point, call.features[k], TenthOfADegreeSq)
    /\ call.result = NULL

\* C9: when the point is strictly inside several features, the call returns
\* the code of the first of them in collection order, unless the point lies
\* on the boundary of a still earlier feature, whose code it may then
\* return; a MultiPolygon counts through any of its polygons.
C9_FirstMatchWins ==
    ( Returned /\ FirstInside # 0 )
    => \E m \in 1..FirstInside :
          /\ TouchesFeature(Point, call.features[m])
          /\ call.result = call.features[m].iso

\* C9 witness: the point is strictly inside two features, the first of them
\* a MultiPolygon that contains it through its second polygon, and the call
\* returned the MultiPolygon's code.
C9_Witness ==
    /\ Returned
    /\ FirstInside # 0
    /\ call.features[FirstInside].geometry.type = "MultiPolygon"
    /\ ~StrictlyInside(Point, call.features[FirstInside].geometry.coordinates[1][1])
    /\ \E k \in DOMAIN call.features :
          k > FirstInside /\ InsideFeature(Point, call.features[k])
    /\ call.result = call.features[FirstInside].iso

\* C10 (as claimed): the call never throws on malformed geometry: whatever
\* empty or missing rings the features have, it returns null or the code of
\* a feature that has an outer ring with an edge.
C10_NeverThrows ==
    Returned =>
        /\ call.result # THROWN
        /\ \/ call.result = NULL
           \/ \E k \in DOMAIN call.features :
                 /\ \E ring \in OuterRings(call.features[k]) : Len(ring) >= 2
                 /\ call.result = call.features[k].iso

(***************************************************************************)
(* useStravaAuth: how the activities handed to the hook change.            *)
(* An activity is [id, has_latlng, start_latlng, start_date, sport_type]:   *)
(* start_latlng                                                            *)
(* is the array [lat, lng] (has_latlng is FALSE when the field is          *)
(* missing), start_date a time, 0 when the field is missing.  numeric      *)
(* tells whether the components of start_latlng are JavaScript numbers;    *)
(* when they are not (strings, null) start_latlng holds what they denote.  *)
(***************************************************************************)
MaxActs == 3

MaxBatch == 1

Activity(id, latlng, date) ==
    [id |-> id, has_latlng |-> TRUE, start_latlng |-> latlng, start_date |-> date,
     numeric |-> TRUE, sport_type |-> "Run"]

\* an activity whose start_latlng components are not numbers
NotNumeric(id, latlng, date) ==
    [id |-> id, has_latlng |-> TRUE, start_latlng |-> latlng, start_date |-> date,
     numeric |-> FALSE, sport_type |-> "Run"]

NoLatLng(id, date) ==
    [id |-> id, has_latlng |-> FALSE, start_latlng |-> <<>>, start_date |-> date,
     numeric |-> TRUE, sport_type |-> "Run"]

\* the activities the API can return
ActivityPool ==
    { Activity(1, <<50, 50>>, 3),
      Activity(2, <<51, 51>>, 2),
      Activity(3, <<1000, 1000>>, 1),
      Activity(4, <<50, 250>>, 0),
      Activity(5, <<-4, 50>>, 0),
      NoLatLng(7, 4),
      Activity(8, <<50>>, 0),
      Activity(11, <<50, 106>>, 0),
      Activity(12, <<50, 112>>, 0) }

\* the sequences of n pool activities in the order of their ids
RECURSIVE Responses(_)
Responses(n) ==
    IF n = 0 THEN {<<>>}
    ELSE UNION {{Append(r, a) : a \in {b \in ActivityPool :
                                          \A i \in 1..(n - 1) : r[i].id < b.id}} :
                r \in Responses(n - 1)}

\* newActivities: what one loadActivitiesForYear collected from the API
Batches == UNION {Responses(n) : n \in 0..MaxBatch}

\* where a goes in a list sorted by descending start_date, after the
\* elements that compare equal (Array.prototype.sort is stable)
RECURSIVE InsertByDate(_, _)
InsertByDate(sorted, a) ==
    IF sorted = <<>> THEN <<a>>
    ELSE IF Head(sorted).start_date >= a.start_date
    THEN <<Head(sorted)>> \o InsertByDate(Tail(sorted), a)
    ELSE <<a>> \o sorted

RECURSIVE SortByDateDesc(_, _)
SortByDateDesc(list, acc) ==
    IF list = <<>> THEN acc
    ELSE SortByDateDesc(Tail(list), InsertByDate(acc, Head(list)))

\* the updater passed to setActivities
MergeActivities(prev, newActivities) ==
    LET existingIds == {prev[i].id : i \in DOMAIN prev}
        uniqueNew == SelectSeq(newActivities, LAMBDA a : a.id \notin existingIds)
    IN  SortByDateDesc(prev \o uniqueNew, <<>>)

(***************************************************************************)
(* useStravaAuth and the effect of App that loads the selected year.  A    *)
(* start_date of the activities below is 100 * year + 10 * month + day.    *)
(* The record auth is transformed by the synchronous part of each          *)
(* function: what follows an await is an action of its own.                *)
(***************************************************************************)
\* new Date().getFullYear()
CurrentYear == 2

\* Date.prototype.getFullYear and getMonth
getFullYear(date) == date \div 100

getMonth(date) == (date % 100) \div 10

\* perPage, scaled down from 50: a response of PerPage activities is a full
\* page, after which the next page is requested
PerPage == 2

\* no load is answered with more than MaxPages pages
MaxPages == 2

\* at most MaxLoads calls of loadActivitiesForYear are awaiting a response
MaxLoads == 3

\* at most MaxExchanges calls of exchangeCodeForToken are ever made
MaxExchanges == 2

Ride(a) == [a EXCEPT !.sport_type = "Ride"]

\* the athlete's activities: three of the current year, one of the last
YearPool ==
    { Ride(Activity(21, <<50, 50>>, 254)),
      Activity(22, <<250, 250>>, 251),
      Activity(23, <<50, 250>>, 231),
      Activity(24, <<50, 50>>, 151) }

\* the lists of n activities of pool, without repetition, in the order of
\* their ids
RECURSIVE Lists(_, _)
Lists(pool, n) ==
    IF n = 0 THEN {<<>>}
    ELSE UNION {{Append(r, a) : a \in {b \in pool :
                                          \A i \in 1..(n - 1) : r[i].id < b.id}} :
                r \in Lists(pool, n - 1)}

\* what one listActivities request for the year (after: start, before: end)
\* can be answered with: at most PerPage distinct activities of that year
Pages(year) ==
    UNION {Lists({a \in YearPool : getFullYear(a.start_date) = year}, n) :
           n \in 0..PerPage}

\* a variant of the function without the loadedYears test
loadActivitiesForYear_NoLoadedTest(s, year) ==
    [s EXCEPT !.status = "loading",
              !.errorMessage = NULL,
              !.loads = @ (+) SetToBag({[year |-> year, newActivities |-> <<>>,
                                         page |-> 1]})]

\* loadActivitiesForYear up to its first request: nothing for a loaded
\* year; otherwise status and errorMessage are set and page 1 is requested
loadActivitiesForYear(s, year) ==
    IF year \in s.loadedYears
    THEN s
    ELSE [s EXCEPT !.status = "loading",
                   !.errorMessage = NULL,
                   !.loads = @ (+) SetToBag({[year |-> year,
                                              newActivities |-> <<>>,
                                              page |-> 1]})]

\* exchangeCodeForToken up to its request
exchangeCodeForToken(s) ==
    [s EXCEPT !.status = "exchanging",
              !.errorMessage = NULL,
              !.exchanges = Append(@, "pending")]

\* a variant of the effect that does not consult processingCode
AuthEffect_NoProcessingTest(s) ==
    IF s.accessToken # NULL
    THEN loadActivitiesForYear(s, CurrentYear)
    ELSE IF s.code
    THEN exchangeCodeForToken([s EXCEPT !.processingCode = TRUE])
    ELSE s

\* the effect of useStravaAuth (dependencies: accessToken)
AuthEffect(s) ==
    IF s.accessToken # NULL
    THEN loadActivitiesForYear(s, CurrentYear)
    ELSE IF s.code /\ ~s.processingCode
    THEN exchangeCodeForToken([s EXCEPT !.processingCode = TRUE])
    ELSE s

\* the effect of App (dependencies: dateRange, accessToken)
AppEffect(s, dateRange) ==
    IF s.accessToken = NULL
    THEN s
    ELSE IF dateRange = "lastYear"
    THEN loadActivitiesForYear(s, CurrentYear - 1)
    ELSE loadActivitiesForYear(s, CurrentYear)

\* the effects React runs after a render that took auth from before to s
\* and dateRange from dateRange0 to dateRange: those with a changed
\* dependency, the hook's before App's own
Effects(before, s, dateRange0, dateRange) ==
    LET a == IF s.accessToken # before.accessToken THEN AuthEffect(s) ELSE s
    IN  IF s.accessToken # before.accessToken \/ dateRange # dateRange0
        THEN AppEffect(a, dateRange)
        ELSE a

\* what handleReset does to the cells other than activities
handleReset(s) ==
    [s EXCEPT !.accessToken = NULL,
              !.loadedYears = {},
              !.status = "idle",
              !.errorMessage = NULL]

\* the awaited loads without one call that is at load
Remove(loads, load) == loads (-) SetToBag({load})

(***************************************************************************)
(* useVisitedCountries                                                     *)
(***************************************************************************)
\* Number.prototype.toFixed(1) of c hundredths: the sign and the magnitude
\* rounded to tenths ((-0.04).toFixed(1) is "-0.0").  No coordinate of the
\* pool lies halfway between two tenths.
ToFixed1(c) == [neg |-> c < 0, tenths |-> (Abs(c) + 5) \div 10]

\* `${lat.toFixed(1)},${lng.toFixed(1)}`
CacheKey(lat, lng) == <<ToFixed1(lat), ToFixed1(lng)>>

\* a variant of the test that only excludes null
Truthy_NotNull(countryCode) == countryCode # NULL

\* if (countryCode): neither null nor the empty string
Truthy(countryCode) == countryCode # NULL /\ countryCode # ""

\* if (!activity.start_latlng || activity.start_latlng.length !== 2) continue
Usable(activity) == activity.has_latlng /\ Len(activity.start_latlng) = 2

\* a variant of the lookup that never consults the cache
Lookup_NoCache(cache, activity, features) ==
    IF ~Usable(activity) THEN UNSET
    ELSE IF ~activity.numeric THEN THROWN
    ELSE getCountryFromPoint(activity.start_latlng[1], activity.start_latlng[2],
                             features)

\* c hundredths rounded to whole tenths, in hundredths
Rounded(c) == (IF c < 0 THEN -1 ELSE 1) * ((Abs(c) + 5) \div 10) * 10

\* a variant of the lookup that classifies the rounded coordinate of the key
Lookup_Rounded(cache, activity, features) ==
    IF ~Usable(activity) THEN UNSET
    ELSE IF ~activity.numeric THEN THROWN
    ELSE LET lat == activity.start_latlng[1]
             lng == activity.start_latlng[2]
             key == CacheKey(lat, lng)
         IN  IF key \in DOMAIN cache THEN cache[key]
             ELSE getCountryFromPoint(Rounded(lat), Rounded(lng), features)

\* countryCode after the cache lookup and, on a miss, the classifier call
\* (UNSET for an activity the loop skips)
Lookup(cache, activity, features) ==
    IF ~Usable(activity) THEN UNSET
    ELSE IF ~activity.numeric THEN THROWN  \* lat.toFixed is not a function
    ELSE LET lat == activity.start_latlng[1]
             lng == activity.start_latlng[2]
             key == CacheKey(lat, lng)
         IN  IF key \in DOMAIN cache THEN cache[key]
             ELSE getCountryFromPoint(lat, lng, features)

\* a variant of the loop body that never stores what it looked up
LoopBody_NoCacheSet(s, activity, features, countryCode) ==
    IF ~Usable(activity)
    THEN s
    ELSE LET lat == activity.start_latlng[1]
             lng == activity.start_latlng[2]
             key == CacheKey(lat, lng)
             hit == key \in DOMAIN s.coordCache
         IN  [s EXCEPT
                !.calls = IF hit THEN @ ELSE @ + 1,
                !.call = IF hit THEN @
                         ELSE [lat |-> lat, lng |-> lng, features |-> features,
                               result |-> countryCode],
                !.visited = IF Truthy(countryCode) THEN @ \cup {countryCode} ELSE @,
                !.activityMap = IF Truthy(countryCode)
                                THEN (activity.id :> countryCode) @@ @
                                ELSE @]

\* a variant of the loop body that records every looked-up result, null too
LoopBody_NullRecorded(s, activity, features, countryCode) ==
    IF ~Usable(activity)
    THEN s
    ELSE LET lat == activity.start_latlng[1]
             lng == activity.start_latlng[2]
             key == CacheKey(lat, lng)
             hit == key \in DOMAIN s.coordCache
         IN  [s EXCEPT
                !.calls = IF hit THEN @ ELSE @ + 1,
                !.call = IF hit THEN @
                         ELSE [lat |-> lat, lng |-> lng, features |-> features,
                               result |-> countryCode],
                !.coordCache = IF hit THEN @ ELSE (key :> countryCode) @@ @,
                !.visited = @ \cup {countryCode},
                !.activityMap = (activity.id :> countryCode) @@ @]

\* a variant of the loop body whose cache holds the latest entry only
LoopBody_SingleEntryCache(s, activity, features, countryCode) ==
    IF ~Usable(activity)
    THEN s
    ELSE LET lat == activity.start_latlng[1]
             lng == activity.start_latlng[2]
             key == CacheKey(lat, lng)
             hit == key \in DOMAIN s.coordCache
         IN  [s EXCEPT
                !.calls = IF hit THEN @ ELSE @ + 1,
                !.call = IF hit THEN @
                         ELSE [lat |-> lat, lng |-> lng, features |-> features,
                               result |-> countryCode],
                !.coordCache = IF hit THEN @ ELSE (key :> countryCode),
                !.visited = IF Truthy(countryCode) THEN @ \cup {countryCode} ELSE @,
                !.activityMap = IF Truthy(countryCode)
                                THEN (activity.id :> countryCode) @@ @
                                ELSE @]

\* one iteration of for (const activity of activities) on the pass state
\* s = [coordCache, visited, activityMap, calls, call, threw], countryCode
\* being what the lookup of the iteration produced
LoopBody(s, activity, features, countryCode) ==
    IF ~Usable(activity)
    THEN s
    ELSE IF ~activity.numeric
    THEN [s EXCEPT !.threw = TRUE]  \* lat.toFixed(1) throws a TypeError
    ELSE LET lat == activity.start_latlng[1]
             lng == activity.start_latlng[2]
             key == CacheKey(lat, lng)
             hit == key \in DOMAIN s.coordCache
         IN  IF countryCode = THROWN
             THEN [s EXCEPT
                     !.calls = @ + 1,
                     !.call = [lat |-> lat, lng |-> lng, features |-> features,
                               result |-> THROWN],
                     !.threw = TRUE]
             ELSE [s EXCEPT
                     !.calls = IF hit THEN @ ELSE @ + 1,
                     !.call = IF hit THEN @
                              ELSE [lat |-> lat, lng |-> lng, features |-> features,
                                    result |-> countryCode],
                     !.coordCache = IF hit THEN @ ELSE (key :> countryCode) @@ @,
                     !.visited = IF Truthy(countryCode) THEN @ \cup {countryCode}
                                 ELSE @,
                     !.activityMap = IF Truthy(countryCode)
                                     THEN (activity.id :> countryCode) @@ @
                                     ELSE @]

\* a variant of the start of the callback that keeps the cache of the
\* previous pass
StartMemo_KeepsCache(acts, data) ==
    /\ visited' = {}
    /\ activityMap' = EmptyMap
    /\ UNCHANGED coordCache
    /\ calls' = 0
    /\ call' = NoCall
    /\ IF data.type = "null" \/ Len(acts) = 0
       THEN /\ visitedCountries' = {}
            /\ activityCountries' = EmptyMap
            /\ idx' = 0
            /\ pc' = "idle"
       ELSE /\ UNCHANGED <<visitedCountries, activityCountries>>
            /\ idx' = 1
            /\ pc' = "memo"

\* the useMemo callback, run because acts or data is a new reference, up to
\* its loop: the early return publishes the empty results at once
StartMemo(acts, data) ==
    /\ visited' = {}
    /\ activityMap' = EmptyMap
    /\ coordCache' = EmptyMap
    /\ calls' = 0
    /\ call' = NoCall
    /\ IF data.type = "null" \/ Len(acts) = 0
       THEN /\ visitedCountries' = {}
            /\ activityCountries' = EmptyMap
            /\ idx' = 0
            /\ pc' = "idle"
       ELSE /\ UNCHANGED <<visitedCountries, activityCountries>>
            /\ idx' = 1
            /\ pc' = "memo"

\* a variant of the loop step that leaves the loop at an activity without
\* a usable coordinate instead of going on to the next one
MemoStep_BreakOnUnusable ==
    /\ pc = "memo"
    /\ idx <= Len(activities)
    /\ \E countryCode \in {Lookup(coordCache, activities[idx], geoJsonData.features)} :
       \E s \in {LoopBody([coordCache |-> coordCache, visited |-> visited,
                           activityMap |-> activityMap, calls |-> calls,
                           call |-> call, threw |-> FALSE],
                          activities[idx], geoJsonData.features, countryCode)} :
           /\ coordCache' = s.coordCache
           /\ visited' = s.visited
           /\ activityMap' = s.activityMap
           /\ calls' = s.calls
           /\ call' = s.call
           /\ pc' = IF s.threw THEN "threw" ELSE "memo"
           /\ idx' = IF Usable(activities[idx]) THEN idx + 1
                     ELSE Len(activities) + 1
    /\ UNCHANGED <<auth, app>>
    /\ UNCHANGED <<geoJsonData, fetchState, activities, visitedCountries,
                   activityCountries>>

\* the next activity of the loop
MemoStep ==
    /\ pc = "memo"
    /\ idx <= Len(activities)
    /\ \E countryCode \in {Lookup(coordCache, activities[idx], geoJsonData.features)} :
       \E s \in {LoopBody([coordCache |-> coordCache, visited |-> visited,
                           activityMap |-> activityMap, calls |-> calls,
                           call |-> call, threw |-> FALSE],
                          activities[idx], geoJsonData.features, countryCode)} :
           /\ coordCache' = s.coordCache
           /\ visited' = s.visited
           /\ activityMap' = s.activityMap
           /\ calls' = s.calls
           /\ call' = s.call
           /\ pc' = IF s.threw THEN "threw" ELSE "memo"
           /\ idx' = idx + 1
    /\ UNCHANGED <<auth, app>>
    /\ UNCHANGED <<geoJsonData, fetchState, activities, visitedCountries,
                   activityCountries>>

\* return { visitedCountries: visited, activityCountries: activityMap }
MemoReturn ==
    /\ pc = "memo"
    /\ idx > Len(activities)
    /\ visitedCountries' = visited
    /\ activityCountries' = activityMap
    /\ pc' = "idle"
    /\ UNCHANGED <<auth, app>>
    /\ UNCHANGED <<geoJsonData, fetchState, activities, idx, coordCache, visited,
                   activityMap, calls, call>>

\* the boundary collections the dataset URL can answer with
Boundaries ==
    { <<>>,
      <<Polygon("AA", <<Rect(0, 0, 100, 100)>>),
        Polygon("BB", <<Rect(200, 200, 300, 300)>>)>>,
      <<Polygon("CC", <<Rect(0, 200, 100, 300)>>),
        Polygon("DD", <<Rect(200, 0, 300, 100)>>)>>,
      <<Polygon("", <<Rect(0, 0, 100, 100)>>),
        MultiPolygon("BB", <<<<Rect(200, 200, 300, 300)>>,
                             <<Rect(200, 0, 300, 100)>>>>)>> }

\* .then((data) => setGeoJsonData(data)), and the render that follows
FetchResolved ==
    /\ pc = "idle"
    /\ \E f \in DOMAIN fetchState :
          /\ fetchState[f] = "pending"
          /\ fetchState' = [fetchState EXCEPT ![f] = "resolved"]
    /\ \E fs \in Boundaries :
          /\ geoJsonData' = FeatureCollection(fs)
          /\ StartMemo(activities, FeatureCollection(fs))
    /\ UNCHANGED <<activities, auth, app>>

\* a variant of the failure handler that fetches again
FetchFailed_Retries ==
    /\ pc = "idle"
    /\ \E f \in DOMAIN fetchState :
          /\ fetchState[f] = "pending"
          /\ fetchState' = IF Len(fetchState) < 3
                           THEN Append([fetchState EXCEPT ![f] = "failed"], "pending")
                           ELSE [fetchState EXCEPT ![f] = "failed"]
    /\ UNCHANGED <<geoJsonData, activities, visitedCountries, activityCountries,
                   pc, idx, coordCache, visited, activityMap, calls, call,
                   auth, app>>

\* .catch((err) => console.error(...)): no state changes
FetchFailed ==
    /\ pc = "idle"
    /\ \E f \in DOMAIN fetchState :
          /\ fetchState[f] = "pending"
          /\ fetchState' = [fetchState EXCEPT ![f] = "failed"]
    /\ UNCHANGED <<geoJsonData, activities, visitedCountries, activityCountries,
                   pc, idx, coordCache, visited, activityMap, calls, call,
                   auth, app>>

\* setActivities((prev) => ...) at the end of loadActivitiesForYear, and the
\* render that follows
LoadCompleted ==
    /\ pc = "idle"
    /\ \E newActivities \in Batches :
          LET merged == MergeActivities(activities, newActivities)
          IN  /\ Len(merged) <= MaxActs
              /\ activities' = merged
              /\ StartMemo(merged, geoJsonData)
    /\ UNCHANGED <<geoJsonData, fetchState, auth, app>>

\* activities the API can return whose start_latlng has two components
\* that are not numbers
IllTypedPool ==
    { NotNumeric(9, <<50, 50>>, 5),
      NotNumeric(10, <<50, 250>>, 0) }

\* LoadCompleted for a response that holds such an activity
LoadIllTyped ==
    /\ pc = "idle"
    /\ \E a \in IllTypedPool, newActivities \in Batches :
          LET merged == MergeActivities(activities, <<a>> \o newActivities)
          IN  /\ Len(merged) <= MaxActs
              /\ activities' = merged
              /\ StartMemo(merged, geoJsonData)
    /\ UNCHANGED <<geoJsonData, fetchState, auth, app>>

\* handleReset, and the render and the effects that follow
HandleReset ==
    /\ pc = "idle"
    /\ auth.mounted
    /\ activities' = <<>>
    /\ auth' = Effects(auth, handleReset(auth), app.dateRange, app.dateRange)
    /\ Len(auth'.exchanges) <= MaxExchanges
    /\ StartMemo(<<>>, geoJsonData)
    /\ UNCHANGED <<geoJsonData, fetchState, app>>

Init ==
    /\ HookInit
    /\ call = NoCall
    /\ auth = FirstVisit
    /\ app = AppInit

Next ==
    \/ FetchResolved
    \/ FetchFailed
    \/ LoadCompleted
    \/ HandleReset
    \/ MemoStep
    \/ MemoReturn

Spec == Init /\ [][Next]_vars

NextIllTyped == Next \/ LoadIllTyped

SpecIllTyped == Init /\ [][NextIllTyped]_vars

(***************************************************************************)
(* useStravaAuth inside App: the page is opened with or without a stored   *)
(* token and with or without a code in its URL; the boundary fetch stays   *)
(* pending, so that every pass of useVisitedCountries returns at once.     *)
(***************************************************************************)
InitAuth ==
    /\ HookInit
    /\ fetchState = <<"pending">>
    /\ call = NoCall
    /\ auth \in {AuthCells(accessToken, code) :
                    accessToken \in {NULL, Token}, code \in BOOLEAN}
    /\ app = AppInit

\* the effects of the first render, the hook's before App's own
MountEffects(s, dateRange) == AppEffect(AuthEffect(s), dateRange)

\* the first render and its effects, which <StrictMode> runs a second time
\* in a development build
Mount ==
    /\ pc = "idle"
    /\ ~auth.mounted
    /\ \E strict \in BOOLEAN :
          LET once == MountEffects(auth, app.dateRange)
              run == IF strict THEN MountEffects(once, app.dateRange) ELSE once
          IN  auth' = [run EXCEPT !.mounted = TRUE]
    /\ UNCHANGED <<HookVars, call, app>>

DateRanges == {"week", "month", "year", "lastYear"}

\* onSelectRange={setDateRange}, and the render and the effect that follow
SelectRange ==
    /\ pc = "idle"
    /\ auth.mounted
    /\ \E dateRange \in DateRanges \ {app.dateRange} :
          /\ app' = [app EXCEPT !.dateRange = dateRange]
          /\ auth' = Effects(auth, auth, app.dateRange, dateRange)
          /\ BagCardinality(auth'.loads) <= MaxLoads
    /\ UNCHANGED <<HookVars, call>>

\* a listActivities request of a load is answered with a full page: the
\* list is collected and the next page is requested
ListActivitiesFullPage ==
    /\ pc = "idle"
    /\ \E load \in BagToSet(auth.loads) :
       \E list \in Pages(load.year) :
          /\ Len(list) = PerPage
          /\ load.page < MaxPages
          /\ auth' = [auth EXCEPT
                        !.loads = Remove(@, load) (+)
                                  SetToBag({[load EXCEPT
                                               !.newActivities = @ \o list,
                                               !.page = @ + 1]})]
    /\ UNCHANGED <<HookVars, call, app>>

\* a listActivities request of a load is answered with an empty or a short
\* page: the loop ends, the collected activities are merged, the year is
\* recorded, and the render follows
ListActivitiesLastPage ==
    /\ pc = "idle"
    /\ \E load \in BagToSet(auth.loads) :
       \E list \in Pages(load.year) :
          /\ Len(list) < PerPage
          /\ \E merged \in {MergeActivities(activities,
                                            load.newActivities \o list)} :
                /\ activities' = merged
                /\ StartMemo(merged, geoJsonData)
          /\ auth' = [auth EXCEPT !.loads = Remove(@, load),
                                  !.loadedYears = @ \cup {load.year},
                                  !.status = "ready"]
    /\ UNCHANGED <<geoJsonData, fetchState, app>>

LoadError == "Failed to load activities. Check CORS and access credentials."

\* a variant of the catch block that records the year as loaded
ListActivitiesFailed_MarksLoaded ==
    /\ pc = "idle"
    /\ \E load \in BagToSet(auth.loads) :
          auth' = [auth EXCEPT !.loads = Remove(@, load),
                               !.loadedYears = @ \cup {load.year},
                               !.errorMessage = LoadError,
                               !.status = "error"]
    /\ UNCHANGED <<HookVars, call, app>>

\* a request of a load is rejected: the catch block
ListActivitiesFailed ==
    /\ pc = "idle"
    /\ \E load \in BagToSet(auth.loads) :
          auth' = [auth EXCEPT !.loads = Remove(@, load),
                               !.errorMessage = LoadError,
                               !.status = "error"]
    /\ UNCHANGED <<HookVars, call, app>>

\* exchangeStravaToken answers with a token: it is stored, the code leaves
\* the URL, the current year is loaded, and the render and its effects
\* follow
ExchangeResolved ==
    /\ pc = "idle"
    /\ \E i \in DOMAIN auth.exchanges :
          /\ auth.exchanges[i] = "pending"
          /\ auth' = Effects(auth,
                             loadActivitiesForYear(
                                 [auth EXCEPT !.exchanges[i] = "resolved",
                                              !.accessToken = Token,
                                              !.code = FALSE],
                                 CurrentYear),
                             app.dateRange, app.dateRange)
          /\ BagCardinality(auth'.loads) <= MaxLoads
    /\ UNCHANGED <<HookVars, call, app>>

ExchangeError == "Failed to obtain access token. Check Firebase function logs."

\* exchangeStravaToken is rejected or answers without a token: the catch
\* block
ExchangeFailed ==
    /\ pc = "idle"
    /\ \E i \in DOMAIN auth.exchanges :
          /\ auth.exchanges[i] = "pending"
          /\ auth' = [auth EXCEPT !.exchanges[i] = "failed",
                                  !.errorMessage = ExchangeError,
                                  !.status = "error"]
    /\ UNCHANGED <<HookVars, call, app>>

NextAuth ==
    \/ Mount
    \/ SelectRange
    \/ ListActivitiesFullPage
    \/ ListActivitiesLastPage
    \/ ListActivitiesFailed
    \/ ExchangeResolved
    \/ ExchangeFailed
    \/ HandleReset

SpecAuth == InitAuth /\ [][NextAuth]_vars

(***************************************************************************)
(* App: the filters over the activities and their countries.  useStravaAuth*)
(* is reduced to the loads that complete, as in Spec.                      *)
(***************************************************************************)
\* const now = new Date()
Now == 100 * CurrentYear + 55

\* startOfWeek: the Monday of the week of Now, at 0:00
StartOfWeek == Now - 2

\* the date filter of filteredActivities
InRange(start_date, dateRange) ==
    /\ start_date # 0
    /\ CASE dateRange = "year" -> getFullYear(start_date) = CurrentYear
         [] dateRange = "lastYear" -> getFullYear(start_date) = CurrentYear - 1
         [] dateRange = "month" -> /\ getFullYear(start_date) = CurrentYear
                                   /\ getMonth(start_date) = getMonth(Now)
         [] dateRange = "week" -> start_date >= StartOfWeek
         [] OTHER -> TRUE

\* activityCountries.get(a.id) === code
MapsTo(countries, a, code) == a.id \in DOMAIN countries /\ countries[a.id] = code

\* a variant of the memo without the filter by country
filteredActivities_NoCountryFilter(acts, countries, a) ==
    LET byType == IF a.filterType # "All"
                  THEN SelectSeq(acts, LAMBDA x : x.sport_type = a.filterType)
                  ELSE acts
    IN  SelectSeq(byType, LAMBDA x : InRange(x.start_date, a.dateRange))

\* the useMemo of filteredActivities, for App's state a
filteredActivities(acts, countries, a) ==
    LET byType == IF a.filterType # "All"
                  THEN SelectSeq(acts, LAMBDA x : x.sport_type = a.filterType)
                  ELSE acts
        byCountry == IF Truthy(a.selectedCountry)
                     THEN SelectSeq(byType,
                                    LAMBDA x : MapsTo(countries, x, a.selectedCountry))
                     ELSE byType
    IN  SelectSeq(byCountry, LAMBDA x : InRange(x.start_date, a.dateRange))

\* the useMemo of visibleCountries
visibleCountries(filtered, countries) ==
    {countries[filtered[i].id] :
        i \in {j \in DOMAIN filtered : /\ filtered[j].id \in DOMAIN countries
                                       /\ Truthy(countries[filtered[j].id])}}

\* the useMemo of activityTypes
activityTypes(filtered) == {"All"} \cup {filtered[i].sport_type : i \in DOMAIN filtered}

\* what App renders from
Filtered == filteredActivities(activities, activityCountries, app)

Visible == visibleCountries(Filtered, activityCountries)

\* a chip of CountryFlags is clicked: onSelectCountry(isSelected ? null : code)
SelectCountry ==
    /\ pc = "idle"
    /\ \E code \in Visible :
          app' = [app EXCEPT !.selectedCountry = IF @ = code THEN NULL ELSE code]
    /\ UNCHANGED <<HookVars, call, auth>>

\* a chip of the activity types is clicked: setFilterType(type)
SelectType ==
    /\ pc = "idle"
    /\ \E type \in activityTypes(Filtered) \ {app.filterType} :
          app' = [app EXCEPT !.filterType = type]
    /\ UNCHANGED <<HookVars, call, auth>>

\* LoadCompleted for what a load of a year of the athlete's activities
\* collected
YearLoaded ==
    /\ pc = "idle"
    /\ \E year \in {CurrentYear - 1, CurrentYear} :
       \E newActivities \in Pages(year) :
          \E merged \in {MergeActivities(activities, newActivities)} :
              /\ activities' = merged
              /\ StartMemo(merged, geoJsonData)
    /\ UNCHANGED <<geoJsonData, fetchState, auth, app>>

NextApp ==
    \/ FetchResolved
    \/ FetchFailed
    \/ YearLoaded
    \/ HandleReset
    \/ MemoStep
    \/ MemoReturn
    \/ SelectRange
    \/ SelectType
    \/ SelectCountry

SpecApp == Init /\ [][NextApp]_vars

(***************************************************************************)
(* Claims about useVisitedCountries (Spec).  A pass has ended, and its     *)
(* results are the hook's, when pc is "idle".                              *)
(***************************************************************************)
\* the cache keys of the usable activities among the first n of the list
KeysOf(acts, n) ==
    {CacheKey(acts[i].start_latlng[1], acts[i].start_latlng[2]) :
        i \in {j \in 1..n : Usable(acts[j])}}

\* the code the results give the activity with this id, null when none
Assigned(id) ==
    IF id \in DOMAIN activityCountries THEN activityCountries[id] ELSE NULL

\* a pass ran its loop to the end on the current inputs
PassEnded == pc = "idle" /\ geoJsonData.type # "null" /\ Len(activities) > 0

\* C4: in a pass the classifier is invoked once per distinct cache key of
\* the usable activities seen so far, every key it was invoked for is in
\* the cache, and at the end two usable activities with the same key have
\* the same country code (or both none).
C4_OneCallPerKey ==
    /\ pc = "memo" =>
          /\ calls = Cardinality(KeysOf(activities, idx - 1))
          /\ DOMAIN coordCache = KeysOf(activities, idx - 1)
    /\ PassEnded =>
          /\ calls = Cardinality(KeysOf(activities, Len(activities)))
          /\ \A i, j \in DOMAIN activities :
                ( /\ Usable(activities[i]) /\ Usable(activities[j])
                  /\ CacheKey(activities[i].start_latlng[1],
                              activities[i].start_latlng[2])
                     = CacheKey(activities[j].start_latlng[1],
                                activities[j].start_latlng[2]) )
                => Assigned(activities[i].id) = Assigned(activities[j].id)

\* C4 witness: a pass over three usable activities, two of them with
\* different coordinates and the same key, ended after two classifier calls
\* with the same code for the two.
C4_Witness ==
    /\ PassEnded
    /\ Len(activities) = 3
    /\ \A i \in DOMAIN activities : Usable(activities[i])
    /\ calls = 2
    /\ \E i, j \in DOMAIN activities :
          /\ activities[i].start_latlng # activities[j].start_latlng
          /\ CacheKey(activities[i].start_latlng[1], activities[i].start_latlng[2])
             = CacheKey(activities[j].start_latlng[1], activities[j].start_latlng[2])
          /\ Assigned(activities[i].id) = "AA"
          /\ Assigned(activities[j].id) = "AA"

\* the inputs of the scenario: squares "AA" over 0..1 and "BB" over 2..3,
\* activities 1 at [0.5, 0.5], 2 at [0.51, 0.51] and 3 at [10, 10]
ScenarioInputs ==
    /\ geoJsonData.type # "null"
    /\ geoJsonData.features =
          <<Polygon("AA", <<Rect(0, 0, 100, 100)>>),
            Polygon("BB", <<Rect(200, 200, 300, 300)>>)>>
    /\ Len(activities) = 3
    /\ {<<activities[i].id, activities[i].has_latlng, activities[i].start_latlng>> :
           i \in DOMAIN activities}
       = {<<1, TRUE, <<50, 50>>>>, <<2, TRUE, <<51, 51>>>>,
          <<3, TRUE, <<1000, 1000>>>>}

\* C5: on the inputs of the scenario the pass ends with visitedCountries =
\* {"AA"} and activityCountries = {1: "AA", 2: "AA"}, no entry for 3.
C5_Scenario ==
    (pc = "idle" /\ ScenarioInputs)
    => /\ visitedCountries = {"AA"}
       /\ activityCountries = (1 :> "AA" @@ 2 :> "AA")

\* C5 witness: the pass on the inputs of the scenario ended, after two
\* classifier calls, with the results of the scenario.
C5_Witness ==
    /\ pc = "idle"
    /\ ScenarioInputs
    /\ calls = 2
    /\ visitedCountries = {"AA"}
    /\ DOMAIN activityCountries = {1, 2}
    /\ 3 \notin DOMAIN activityCountries

\* the activity at position i is the first of the list with its cache key,
\* so that its code comes from a classifier call on its own coordinates
FirstOfKey(i) ==
    /\ Usable(activities[i])
    /\ \A j \in 1..(i - 1) :
          Usable(activities[j]) =>
             CacheKey(activities[j].start_latlng[1], activities[j].start_latlng[2])
             # CacheKey(activities[i].start_latlng[1], activities[i].start_latlng[2])

\* C6: start_latlng is [lat, lng] and is tested as the point (x = lng,
\* y = lat).  At the end of a pass an activity that is the first with its
\* key is assigned the non-empty code of the feature that strictly contains
\* (lng, lat) when no earlier feature touches that point, and it is not
\* assigned the code of a feature that contains (lat, lng) while (lng, lat)
\* is outside it and farther than 0.1 degree from it.
C6_LatLngSwapped ==
    PassEnded =>
       \A i \in DOMAIN activities :
          FirstOfKey(i) =>
             LET lat == activities[i].start_latlng[1]
                 lng == activities[i].start_latlng[2]
                 fs == geoJsonData.features
             IN  \A k \in DOMAIN fs :
                    /\ ( /\ InsideFeature(<<lng, lat>>, fs[k])
                         /\ fs[k].iso # ""
                         /\ \A j \in 1..(k - 1) : ~TouchesFeature(<<lng, lat>>, fs[j]) )
                       => Assigned(activities[i].id) = fs[k].iso
                    /\ ( /\ InsideFeature(<<lat, lng>>, fs[k])
                         /\ ~TouchesFeature(<<lng, lat>>, fs[k])
                         /\ FartherFromFeature(<<lng, lat>>, fs[k], TenthOfADegreeSq)
                         /\ \A j \in DOMAIN fs : j # k => fs[j].iso # fs[k].iso )
                       => Assigned(activities[i].id) # fs[k].iso

\* C6 witness: an activity at lat 0.5, lng 2.5 was assigned the code of the
\* second feature, whose square contains (x = 2.5, y = 0.5), the square of
\* the first feature containing (x = 0.5, y = 2.5).
C6_Witness ==
    /\ PassEnded
    /\ Len(geoJsonData.features) = 2
    /\ \E i \in DOMAIN activities :
          /\ FirstOfKey(i)
          /\ activities[i].start_latlng = <<50, 250>>
          /\ InsideFeature(<<250, 50>>, geoJsonData.features[2])
          /\ InsideFeature(<<50, 250>>, geoJsonData.features[1])
          /\ ~TouchesFeature(<<250, 50>>, geoJsonData.features[1])
          /\ Assigned(activities[i].id) = geoJsonData.features[2].iso

\* C7: while the boundary collection is not available, the activity list
\* is empty, or the collection has no features, the hook does not throw and
\* its results after the pass are the empty set and the empty map.
C7_EmptyResults ==
    ( \/ geoJsonData.type = "null"
      \/ Len(activities) = 0
      \/ Len(geoJsonData.features) = 0 )
    => /\ pc # "threw"
       /\ pc = "idle" => (visitedCountries = {} /\ activityCountries = EmptyMap)

\* C7 witness: a pass over usable activities on a loaded collection without
\* features, which called the classifier, ended with empty results.
C7_Witness ==
    /\ PassEnded
    /\ Len(geoJsonData.features) = 0
    /\ calls >= 2
    /\ visitedCountries = {}
    /\ activityCountries = EmptyMap

\* C11: an activity whose start coordinate is missing or has not exactly
\* two components is in neither result, and the loop step that meets it
\* throws nothing, leaves the cache, the visited set, the activity map and
\* the number of classifier calls as they are, and goes on to the next
\* activity.
C11_UnusableSkipped ==
    /\ [](\A i \in DOMAIN activities :
             ~Usable(activities[i]) =>
                /\ activities[i].id \notin DOMAIN activityMap
                /\ activities[i].id \notin DOMAIN activityCountries)
    /\ [][(pc = "memo" /\ idx <= Len(activities) /\ ~Usable(activities[idx]))
          => /\ UNCHANGED <<coordCache, visited, activityMap, calls,
                            visitedCountries, activityCountries>>
             /\ pc' = "memo"
             /\ idx' = idx + 1]_vars

\* C11 witness: a pass over an activity without start_latlng, a usable one
\* and one with a single component ended with the usable one assigned and
\* neither of the others in the map.
C11_Witness ==
    /\ PassEnded
    /\ Len(activities) = 3
    /\ ~activities[1].has_latlng
    /\ Usable(activities[2])
    /\ Len(activities[3].start_latlng) = 1
    /\ calls = 1
    /\ visitedCountries = {"AA"}
    /\ DOMAIN activityCountries = {activities[2].id}

\* C12 (as claimed): an activity whose start_latlng has two components
\* that are not both numbers is in neither result, and the pass does not
\* throw.
C12_IllTypedExcluded ==
    /\ pc # "threw"
    /\ \A i \in DOMAIN activities :
          (Usable(activities[i]) /\ ~activities[i].numeric) =>
             /\ activities[i].id \notin DOMAIN activityMap
             /\ activities[i].id \notin DOMAIN activityCountries

\* C13 (as claimed): the boundary fetch is issued exactly once in a page
\* session, and while no fetch has resolved the results are the empty set
\* and the empty map.
C13_FetchedOnce ==
    /\ Len(fetchState) = 1
    /\ (\A f \in DOMAIN fetchState : fetchState[f] # "resolved")
       => /\ pc = "idle"
          /\ visitedCountries = {}
          /\ activityCountries = EmptyMap

\* every fetch that was issued has failed
AllFailed == \A f \in DOMAIN fetchState : fetchState[f] = "failed"

\* C14: when the fetch of the boundaries has failed (every fetch that was
\* issued), the boundaries stay null and the results stay empty whatever
\* the activity list becomes, and nothing is thrown; no fetch is ever
\* issued after mounting, so none is retried; the step in which a fetch
\* fails changes neither the boundaries nor the results.
C14_FailureKeepsEmpty ==
    /\ [](AllFailed => /\ geoJsonData.type = "null"
                       /\ pc = "idle"
                       /\ visitedCountries = {}
                       /\ activityCountries = EmptyMap)
    /\ [][Len(fetchState') = Len(fetchState)]_vars
    /\ [][AllFailed => fetchState' = fetchState]_vars
    /\ [][(\E f \in DOMAIN fetchState :
              fetchState[f] # "failed" /\ fetchState'[f] = "failed")
          => UNCHANGED <<geoJsonData, activities, visitedCountries,
                         activityCountries, pc>>]_vars

\* C14 witness: every fetch has failed, three usable activities were loaded,
\* and the results are empty.
C14_Witness ==
    /\ AllFailed
    /\ Len(activities) = 3
    /\ \A i \in DOMAIN activities : Usable(activities[i])
    /\ pc = "idle"
    /\ calls = 0
    /\ visitedCountries = {}
    /\ activityCountries = EmptyMap

(***************************************************************************)
(* Claims about isPointInPoly and getMinDistToRingSquared (SpecRing).      *)
(***************************************************************************)
\* the edge a-b is crossed by the ray from p towards greater x: exactly one
\* of its endpoints is strictly above p, and the edge meets the horizontal
\* line through p strictly to the right of p
EdgeCrossed(p, a, b) ==
    /\ (a[2] > p[2] /\ b[2] <= p[2]) \/ (b[2] > p[2] /\ a[2] <= p[2])
    /\ IF b[2] > a[2]
       THEN (p[1] - a[1]) * (b[2] - a[2]) < (b[1] - a[1]) * (p[2] - a[2])
       ELSE (p[1] - a[1]) * (b[2] - a[2]) > (b[1] - a[1]) * (p[2] - a[2])

\* the positions i of the ring whose edge ring[i] -> ring[i + 1], the last
\* one going back to the first point, is crossed
CrossedEdges(p, ring) ==
    {i \in 1..Len(ring) : EdgeCrossed(p, ring[i], Succ(ring, i))}

\* C15: isPointInPoly answers "inside" exactly when the number of crossed
\* edges of the ring taken as a cycle is odd.
C15_OddCrossings ==
    call.tested =>
        (call.inside <=> Cardinality(CrossedEdges(call.point, call.ring)) % 2 = 1)

\* C15 witness: for a ring whose last point is not its first, the ray
\* crosses the closing edge and one other edge, and the answer is "outside".
C15_Witness ==
    /\ call.tested
    /\ Len(call.ring) >= 3
    /\ call.ring[1] # call.ring[Len(call.ring)]
    /\ Len(call.ring) \in CrossedEdges(call.point, call.ring)
    /\ Cardinality(CrossedEdges(call.point, call.ring)) = 2
    /\ ~call.inside

\* the least of the squared distances from p to the edges in E, Infinity
\* when there is none
MinOverEdges(p, E) ==
    IF E = {} THEN Infinity
    ELSE LET e == CHOOSE e1 \in E :
                     \A e2 \in E : ~Lt(SegDistSq(p, e2[1], e2[2]),
                                       SegDistSq(p, e1[1], e1[2]))
         IN  SegDistSq(p, e[1], e[2])

\* C16 (as claimed): the distance measured to a ring is the least squared
\* distance to the edges of the ring taken as a cycle, the edge from the
\* last point back to the first included.
C16_ClosingEdgeMeasured ==
    call.measured =>
        call.distSq = MinOverEdges(call.point, RingEdges(call.ring))

(***************************************************************************)
(* Further claims about getCountryFromPoint (SpecClassify).                *)
(***************************************************************************)
\* the rings of a feature after the first of each of its polygons
HoleRings(feature) ==
    LET g == feature.geometry
    IN  IF g.type = "Polygon"
        THEN {g.coordinates[h] : h \in 2..Len(g.coordinates)}
        ELSE IF g.type = "MultiPolygon"
        THEN UNION {{g.coordinates[m][h] : h \in 2..Len(g.coordinates[m])} :
                       m \in DOMAIN g.coordinates}
        ELSE {}

\* the feature with every polygon cut down to its first ring
OuterOnly(feature) ==
    LET g == feature.geometry
    IN  IF g.type = "Polygon"
        THEN [feature EXCEPT !.geometry.coordinates = SubSeq(@, 1, 1)]
        ELSE IF g.type = "MultiPolygon"
        THEN [feature EXCEPT !.geometry.coordinates =
                 [m \in DOMAIN @ |-> SubSeq(@[m], 1, 1)]]
        ELSE feature

\* C17: only the first ring of each polygon is consulted.  A point strictly
\* inside the outer ring of a feature and inside one of its hole rings (no
\* earlier feature touching it) gets that feature's code, and the result of
\* every call is the result for the same collection without its hole rings.
C17_HolesIgnored ==
    Returned =>
        /\ \A k \in DOMAIN call.features :
              ( /\ InsideFeature(Point, call.features[k])
                /\ \E ring \in HoleRings(call.features[k]) :
                      StrictlyInside(Point, ring)
                /\ \A j \in 1..(k - 1) : ~TouchesFeature(Point, call.features[j]) )
              => call.result = call.features[k].iso
        /\ call.result =
              getCountryFromPoint(call.lat, call.lng,
                  [k \in DOMAIN call.features |-> OuterOnly(call.features[k])])

\* C17 witness: a point strictly inside the hole of a polygon got the
\* polygon's code.
C17_Witness ==
    /\ Returned
    /\ \E k \in DOMAIN call.features :
          /\ \E ring \in HoleRings(call.features[k]) : StrictlyInside(Point, ring)
          /\ InsideFeature(Point, call.features[k])
          /\ call.result = call.features[k].iso

\* C18: when some feature contains the point, the call returns the code of
\* a feature that contains it (strictly, or on its boundary), and never the
\* code of a feature that the point is outside of, however near that
\* feature is and wherever it stands in the collection.
C18_ContainmentBeforeFallback ==
    ( Returned /\ \E k \in DOMAIN call.features :
                     InsideFeature(Point, call.features[k]) )
    => /\ \E m \in DOMAIN call.features :
             /\ TouchesFeature(Point, call.features[m])
             /\ call.result = call.features[m].iso
       /\ \A j \in DOMAIN call.features :
             ~TouchesFeature(Point, call.features[j])
             => call.result # call.features[j].iso

\* C18 witness: the point is outside the first feature and less than 0.1
\* degree from it, strictly inside a later feature, and the call returned
\* the later feature's code.
C18_Witness ==
    /\ Returned
    /\ \E j, k \in DOMAIN call.features :
          /\ j < k
          /\ ~TouchesFeature(Point, call.features[j])
          /\ NearerThan(Point, call.features[j], TenthOfADegreeSq)
          /\ InsideFeature(Point, call.features[k])
          /\ \A m \in 1..(k - 1) : ~TouchesFeature(Point, call.features[m])
          /\ call.result = call.features[k].iso

\* the squared distance from p to the feature: the least over the edges of
\* its outer rings, each ring a cycle
FeatureDistSq(p, feature) ==
    MinOverEdges(p, UNION {RingEdges(ring) : ring \in OuterRings(feature)})

\* the features nearer to the point than 0.1 degree
NearFeatures ==
    {k \in DOMAIN call.features :
        Lt(FeatureDistSq(Point, call.features[k]), TenthOfADegreeSq)}

\* C19 (as claimed): for a point that no feature contains and that is
\* nearer than 0.1 degree to some feature, the call returns the code of the
\* feature at the least distance, the first of them in collection order
\* when several are at that distance.
C19_NearestFirstOnTies ==
    ( /\ Returned
      /\ \A k \in DOMAIN call.features : ~TouchesFeature(Point, call.features[k])
      /\ NearFeatures # {} )
    => LET best == CHOOSE k \in NearFeatures :
                      \A m \in NearFeatures :
                         /\ ~Lt(FeatureDistSq(Point, call.features[m]),
                                FeatureDistSq(Point, call.features[k]))
                         /\ FeatureDistSq(Point, call.features[m])
                              = FeatureDistSq(Point, call.features[k]) => k <= m
       IN  call.result = call.features[best].iso

(***************************************************************************)
(* Further claims about useVisitedCountries (Spec).                        *)
(***************************************************************************)
\* C20: a loop step for a usable activity whose key is in the cache, be the
\* cached value a code or null, makes no classifier call and leaves the
\* cache alone; on a miss it makes one call, with the activity's own
\* latitude and longitude, and stores the result, null included, under the
\* key.  Accordingly, at the end of a pass the first activity of each key
\* has the classification of its unrounded point: none when the point is
\* outside every feature and 0.1 degree or more from all, the code of the
\* only feature nearer than that otherwise.
C20_MissClassifiesUnrounded ==
    /\ [][(pc = "memo" /\ idx <= Len(activities) /\ Usable(activities[idx]))
          => LET lat == activities[idx].start_latlng[1]
                 lng == activities[idx].start_latlng[2]
                 key == CacheKey(lat, lng)
             IN  IF key \in DOMAIN coordCache
                 THEN calls' = calls /\ coordCache' = coordCache
                 ELSE /\ calls' = calls + 1
                      /\ call'.lat = lat /\ call'.lng = lng
                      /\ DOMAIN coordCache' = DOMAIN coordCache \cup {key}
                      /\ coordCache'[key] = call'.result
                      /\ \A k \in DOMAIN coordCache : coordCache'[k] = coordCache[k]]_vars
    /\ [](PassEnded =>
            \A i \in DOMAIN activities :
               FirstOfKey(i) =>
                  LET lat == activities[i].start_latlng[1]
                      lng == activities[i].start_latlng[2]
                      p == <<lng, lat>>
                      fs == geoJsonData.features
                      near == {k \in DOMAIN fs :
                                 Lt(FeatureDistSq(p, fs[k]), TenthOfADegreeSq)}
                  IN  (\A k \in DOMAIN fs : ~TouchesFeature(p, fs[k]))
                      => /\ near = {} =>
                              /\ Assigned(activities[i].id) = NULL
                              /\ coordCache[CacheKey(lat, lng)] = NULL
                         /\ \A k \in near :
                              (near = {k} /\ fs[k].iso # "")
                              => Assigned(activities[i].id) = fs[k].iso)

\* C20 witness: a pass over two activities with different coordinates and
\* the same key ended after one classifier call, with null stored under
\* the key and neither activity assigned.
C20_Witness ==
    /\ PassEnded
    /\ Len(activities) = 2
    /\ Len(geoJsonData.features) = 2
    /\ Usable(activities[1]) /\ Usable(activities[2])
    /\ activities[1].start_latlng # activities[2].start_latlng
    /\ DOMAIN coordCache = {CacheKey(activities[1].start_latlng[1],
                                     activities[1].start_latlng[2])}
    /\ DOMAIN coordCache = {CacheKey(activities[2].start_latlng[1],
                                     activities[2].start_latlng[2])}
    /\ \A k \in DOMAIN coordCache : coordCache[k] = NULL
    /\ calls = 1
    /\ activityCountries = EmptyMap

\* the loop of a pass run on a fresh pass state over acts[i..]
RECURSIVE FreshPass(_, _, _, _)
FreshPass(s, acts, i, features) ==
    IF i > Len(acts) THEN s
    ELSE FreshPass(LoopBody(s, acts[i], features,
                            Lookup(s.coordCache, acts[i], features)),
                   acts, i + 1, features)

\* the results of the aggregation computed from nothing but acts and data
FromScratch(acts, data) ==
    IF data.type = "null" \/ Len(acts) = 0
    THEN [visited |-> {}, activityMap |-> EmptyMap]
    ELSE LET s == FreshPass([coordCache |-> EmptyMap, visited |-> {},
                             activityMap |-> EmptyMap, calls |-> 0,
                             call |-> NoCall, threw |-> FALSE],
                            acts, 1, data.features)
         IN  [visited |-> s.visited, activityMap |-> s.activityMap]

\* C21: whenever the hook is at rest, its results are those of the
\* aggregation computed from scratch over the current activity list and
\* the current boundaries, whatever happened before.
C21_ResultsFromCurrentInputs ==
    pc = "idle" =>
        /\ visitedCountries = FromScratch(activities, geoJsonData).visited
        /\ activityCountries = FromScratch(activities, geoJsonData).activityMap

\* C21 witness: two fetches have resolved, so that at least two passes ran
\* on loaded boundaries, and the results assign a country.
C21_Witness ==
    /\ PassEnded
    /\ Len(fetchState) = 2
    /\ \A f \in DOMAIN fetchState : fetchState[f] = "resolved"
    /\ Len(activities) >= 2
    /\ activityCountries # EmptyMap

\* the key of the activity at position i of the list
KeyAt(i) == CacheKey(activities[i].start_latlng[1], activities[i].start_latlng[2])

\* C22: after a pass, an activity has an entry in activityCountries exactly
\* when its coordinate is usable and the result for its key is a non-empty
\* code, which is then its entry; visitedCountries holds neither the
\* no-match value nor the empty code.
C22_EntryIffCode ==
    PassEnded =>
        /\ \A i \in DOMAIN activities :
              /\ activities[i].id \in DOMAIN activityCountries
                 <=> ( /\ Usable(activities[i])
                       /\ coordCache[KeyAt(i)] # NULL
                       /\ coordCache[KeyAt(i)] # "" )
              /\ activities[i].id \in DOMAIN activityCountries
                 => activityCountries[activities[i].id] = coordCache[KeyAt(i)]
        /\ DOMAIN activityCountries \subseteq {activities[i].id : i \in DOMAIN activities}
        /\ NULL \notin visitedCountries
        /\ "" \notin visitedCountries

\* C22 witness: after a pass one activity has the empty code as its result
\* and no entry, another has no match and no entry, a third has an entry.
C22_Witness ==
    /\ PassEnded
    /\ \E i, j, k \in DOMAIN activities :
          /\ Usable(activities[i]) /\ Usable(activities[j]) /\ Usable(activities[k])
          /\ coordCache[KeyAt(i)] = ""
          /\ activities[i].id \notin DOMAIN activityCountries
          /\ coordCache[KeyAt(j)] = NULL
          /\ activities[j].id \notin DOMAIN activityCountries
          /\ activities[k].id \in DOMAIN activityCountries
    /\ "" \notin visitedCountries

\* C23: a step of a pass keeps every entry of the cache as it is and adds
\* at most one.
C23_CacheGrowsOnly ==
    [][pc = "memo" =>
          /\ DOMAIN coordCache \subseteq DOMAIN coordCache'
          /\ \A k \in DOMAIN coordCache : coordCache'[k] = coordCache[k]
          /\ Cardinality(DOMAIN coordCache') <= Cardinality(DOMAIN coordCache) + 1]_vars

\* C23 witness: in the middle of a pass the cache holds two entries.
C23_Witness ==
    /\ pc = "memo"
    /\ idx <= Len(activities)
    /\ Cardinality(DOMAIN coordCache) = 2

\* the values of the activity-to-country map
Values(map) == {map[id] : id \in DOMAIN map}

\* C24: when the hook is at rest, visitedCountries is the set of values of
\* activityCountries, and each of them is the non-empty code of a feature
\* of the boundary collection.
C24_VisitedAreTheValues ==
    pc = "idle" =>
        /\ visitedCountries = Values(activityCountries)
        /\ \A c \in visitedCountries :
              /\ c # NULL /\ c # ""
              /\ \E k \in DOMAIN geoJsonData.features :
                    geoJsonData.features[k].iso = c

\* C24 witness: after a pass over three usable activities one country is
\* visited, by the two activities that have an entry.
C24_Witness ==
    /\ PassEnded
    /\ Len(activities) = 3
    /\ \A i \in DOMAIN activities : Usable(activities[i])
    /\ Cardinality(DOMAIN activityCountries) = 2
    /\ visitedCountries = {"AA"}

\* the first position of the list whose activity is usable and has the
\* same key as the one at position i
FirstWithKey(i) ==
    CHOOSE j \in 1..i :
        /\ Usable(activities[j]) /\ KeyAt(j) = KeyAt(i)
        /\ \A m \in 1..(j - 1) : ~(Usable(activities[m]) /\ KeyAt(m) = KeyAt(i))

\* C25: after a pass, the code of every usable activity is what
\* getCountryFromPoint gives for the coordinate of the first activity of
\* the list with the same key (no entry when that is null or empty).
C25_FirstOfKeyDecides ==
    PassEnded =>
        \A i \in DOMAIN activities :
            Usable(activities[i]) =>
                LET f == activities[FirstWithKey(i)]
                    g == getCountryFromPoint(f.start_latlng[1], f.start_latlng[2],
                                             geoJsonData.features)
                IN  Assigned(activities[i].id) = IF g = "" THEN NULL ELSE g

\* C25 witness: an activity whose own coordinate has no match is assigned
\* the code found for an earlier activity with the same key.
C25_Witness ==
    /\ PassEnded
    /\ \E i \in DOMAIN activities :
          /\ Usable(activities[i])
          /\ FirstWithKey(i) < i
          /\ getCountryFromPoint(activities[i].start_latlng[1],
                                 activities[i].start_latlng[2],
                                 geoJsonData.features) = NULL
          /\ Assigned(activities[i].id) = "AA"

(***************************************************************************)
(* Claims about useStravaAuth (SpecAuth)                                   *)
(***************************************************************************)
\* the ids of a list of activities, with their multiplicity lost
Ids(list) == {list[i].id : i \in DOMAIN list}

\* no listActivities response repeats an id
DistinctPages ==
    \A year \in {CurrentYear - 1, CurrentYear} :
        \A list \in Pages(year) : Cardinality(Ids(list)) = Len(list)

\* C26: whatever loads have completed, overlapping loads of the same year
\* included, the activities list holds no two entries with the same id,
\* given that no single API response repeats an id.
C26_NoDuplicateIds ==
    DistinctPages => Cardinality(Ids(activities)) = Len(activities)

\* C27: however often the effect of useStravaAuth runs again (the token
\* changes, handleReset, a failed exchange), exchangeCodeForToken is called
\* at most once per page load, and never by a render whose accessToken is
\* set.
C27_ExchangeAtMostOnce ==
    /\ [](Len(auth.exchanges) <= 1)
    /\ [][Len(auth'.exchanges) > Len(auth.exchanges)
          => auth'.accessToken = NULL]_vars

\* an exchange has failed, which leaves the code in the URL and no token
C27_Witness ==
    /\ auth.exchanges = <<"failed">>
    /\ auth.code
    /\ auth.accessToken = NULL
    /\ auth.status = "error"

\* the step ends the awaited call that is at load
LoadEnds(load) == auth'.loads = Remove(auth.loads, load)

\* a call of loadActivitiesForYear in state s would request the year
Requests(s, year) ==
    BagCardinality(loadActivitiesForYear(s, year).loads) =
        BagCardinality(s.loads) + 1

\* C28: a load that fails sets status to "error" and an error message,
\* leaves activities alone and adds no year to loadedYears, so that a later
\* call for its year, unless another load has completed it, requests the
\* year again.  (A load ends in "ready" or in "error".)
C28_FailedLoadNotRecorded ==
    [][\A load \in BagToSet(auth.loads) :
          LoadEnds(load)
          => /\ auth'.status \in {"ready", "error"}
             /\ auth'.status = "error"
                => /\ auth'.errorMessage = LoadError
                   /\ activities' = activities
                   /\ auth'.loadedYears = auth.loadedYears
                   /\ load.year \notin auth.loadedYears
                      => Requests(auth', load.year)]_vars

\* the only load has failed; nothing is loaded or awaited
C28_Witness ==
    /\ auth.status = "error"
    /\ auth.errorMessage = LoadError
    /\ auth.loads = EmptyBag
    /\ auth.loadedYears = {}
    /\ auth.accessToken = Token
    /\ activities = <<>>

\* the year the effect of App loads for a date range
YearOfRange(dateRange) ==
    IF dateRange = "lastYear" THEN CurrentYear - 1 ELSE CurrentYear

\* C29: a call of loadActivitiesForYear for a year in loadedYears requests
\* nothing and leaves status, errorMessage and activities as they are (in
\* every state, and in every step that selects a date range whose year is
\* loaded); handleReset empties loadedYears, so that a call for any year
\* requests it again.
C29_LoadedYearSkipped ==
    /\ [](\A year \in auth.loadedYears :
             loadActivitiesForYear(auth, year) = auth)
    /\ [][(/\ app'.dateRange # app.dateRange
           /\ auth.accessToken # NULL
           /\ YearOfRange(app'.dateRange) \in auth.loadedYears)
          => auth' = auth /\ activities' = activities]_vars
    /\ [][(\/ auth.accessToken # NULL /\ auth'.accessToken = NULL
           \/ activities # <<>> /\ activities' = <<>>)
          => /\ auth'.loadedYears = {}
             /\ \A year \in {CurrentYear - 1, CurrentYear} :
                   Requests(auth', year)]_vars

\* both years are loaded, nothing is awaited, and another date range has
\* been selected since
C29_Witness ==
    /\ auth.loadedYears = {CurrentYear - 1, CurrentYear}
    /\ auth.loads = EmptyBag
    /\ auth.accessToken = Token
    /\ app.dateRange = "week"
    /\ Len(activities) = 2

(***************************************************************************)
(* Claims about App (SpecApp), in the states App renders: pc is "idle"     *)
(***************************************************************************)
\* C30: visibleCountries holds only values activityCountries gives to the
\* filtered activities; and while selectedCountry is not null every
\* filtered activity maps to it, so that visibleCountries is empty or
\* {selectedCountry}.
C30_VisibleWithinFiltered ==
    pc = "idle"
    => /\ Visible \subseteq
             {activityCountries[Filtered[i].id] :
                 i \in {j \in DOMAIN Filtered :
                           Filtered[j].id \in DOMAIN activityCountries}}
       /\ app.selectedCountry # NULL
          => /\ \A i \in DOMAIN Filtered :
                   MapsTo(activityCountries, Filtered[i], app.selectedCountry)
             /\ Visible \in {{}, {app.selectedCountry}}

\* a country is selected that hides an activity of another country the
\* other filters let through
C30_Witness ==
    /\ PassEnded
    /\ app.selectedCountry = "AA"
    /\ Visible = {"AA"}
    /\ visibleCountries(filteredActivities(activities, activityCountries,
                                           [app EXCEPT !.selectedCountry = NULL]),
                        activityCountries) = {"AA", "BB"}

====
